---- MODULE Spec2Model ----
(***************************************************************************)
(* The keystore proxy of client/keystore/src/proxy.rs: a KeystoreProxy     *)
(* that turns sign_with / has_keys / insert_unknown into KeystoreRequests  *)
(* on a futures mpsc channel, and a KeystoreReceiver future that pulls     *)
(* them and keeps a Vec<PendingCall>.                                      *)
(*                                                                         *)
(* The channel is futures::channel::mpsc::channel(CHANNEL_SIZE).  Its      *)
(* capacity is buffer + number of senders: every Sender, and so every      *)
(* clone, owns one guaranteed slot, and a sender is refused (Full) only    *)
(* when it is itself parked by an earlier send of its own.  A message      *)
(* wakes the task whose waker the receiver registered when poll_next last  *)
(* returned Pending, and takes that waker out of the channel.              *)
(***************************************************************************)
EXTENDS Naturals, Sequences, FiniteSets

\* const CHANNEL_SIZE: usize = 128
CHANNEL_SIZE == 128

\* Proxy calls made in one behaviour of Spec.
MaxCalls == 3

\* has_keys calls that open a behaviour of BurstSpec.
BurstCalls == 127

\* Public keys the callers use.
Keys == {"pubA"}

\* The key lists has_keys is called with.
KeyLists == {<<>>} \cup {<<k>> : k \in Keys}

\* enum RequestMethod: the tag and the arguments of one operation.
RequestMethod ==
    [tag : {"SignWith", "InsertUnknown"}, args : {<<k>> : k \in Keys}]
        \cup [tag : {"HasKeys"}, args : KeyLists]

VARIABLES
    queue,       \* messages of the mpsc channel, oldest first
    pending,     \* KeystoreReceiver.pending
    oneshot,     \* oneshot[i]: the one-shot channel of the i-th Proxy call
    proxyAlive,  \* the KeystoreProxy (the only lasting Sender) exists
    num_senders, \* Senders of the channel that exist; it closes at 0
    recv_task,   \* the channel holds the actor's waker
    woken,       \* the actor's task has been woken and not polled since
    rxInner,     \* Receiver.inner is Some: end of stream not yet returned
    pollResult,  \* what the last KeystoreReceiver::poll returned
    store        \* the keys the BareCryptoStore holds

vars ==
    <<queue, pending, oneshot, proxyAlive, num_senders, recv_task, woken,
      rxInner, pollResult, store>>

\* The state after proxy(store) and the spawn of the KeystoreReceiver.
Init ==
    /\ queue = <<>>
    /\ pending = <<>>
    /\ oneshot = <<>>
    /\ proxyAlive = TRUE
    /\ num_senders = 1
    /\ recv_task = FALSE
    /\ woken = TRUE
    /\ rxInner = TRUE
    /\ pollResult = "none"
    /\ store \in SUBSET Keys

InQueue(i) == \E j \in 1..Len(queue) : queue[j].sender = i

Dispatched(i) == \E j \in 1..Len(pending) : pending[j].sender = i

\* struct KeystoreRequest { sender, method }
KeystoreRequest(i, method) == [sender |-> i, method |-> method]

\* oneshot::channel(): both halves alive, nothing sent.  `method` records the
\* operation the caller made the call with.
oneshot_channel(method) ==
    [method |-> method, rx |-> "held", tx |-> "alive", sent |-> 0]

\* A full queue that forgets the request: the queue keeps CHANNEL_SIZE
\* messages, the rejected request is lost and its sender is never dropped.
send_request_silent_drop(method) ==
    /\ proxyAlive
    /\ oneshot' = Append(oneshot, oneshot_channel(method))
    /\ queue' = IF Len(queue) >= CHANNEL_SIZE
                    THEN queue
                    ELSE Append(queue, KeystoreRequest(Len(oneshot) + 1, method))
    /\ num_senders' = (num_senders + 1) - 1
    /\ recv_task' = FALSE
    /\ woken' = (woken \/ recv_task)
    /\ UNCHANGED <<pending, proxyAlive, rxInner, pollResult, store>>

\* A proxy that runs the operation itself: the request goes straight to the
\* in-flight set.
send_request_inline(method) ==
    /\ proxyAlive
    /\ oneshot' = Append(oneshot, oneshot_channel(method))
    /\ pending' = Append(pending,
                         [future |-> [tag |-> method.tag, args |-> method.args,
                                      lease |-> "none"],
                          sender |-> Len(oneshot) + 1])
    /\ UNCHANGED <<queue, proxyAlive, num_senders, recv_task, woken, rxInner,
                   pollResult, store>>

\* A proxy that sends through its own Sender, taken out of self and dropped
\* on return: no clone is made, so the drop takes a sender away.
send_request_takes_sender(method) ==
    /\ proxyAlive
    /\ oneshot' = Append(oneshot, oneshot_channel(method))
    /\ queue' = Append(queue, KeystoreRequest(Len(oneshot) + 1, method))
    /\ num_senders' = IF num_senders > 0 THEN num_senders - 1 ELSE 0
    /\ recv_task' = FALSE
    /\ woken' = (woken \/ recv_task)
    /\ UNCHANGED <<pending, proxyAlive, rxInner, pollResult, store>>

\* KeystoreProxy::send_request: a fresh one-shot channel, the request sent
\* through a fresh clone of the Sender (never parked, so the send is accepted
\* whatever the queue holds), recv_task.wake(), the clone dropped: the
\* senders are one more while the call runs and as many as before after it.
send_request(method) ==
    /\ proxyAlive
    /\ oneshot' = Append(oneshot, oneshot_channel(method))
    /\ queue' = Append(queue, KeystoreRequest(Len(oneshot) + 1, method))
    /\ num_senders' = (num_senders + 1) - 1
    /\ recv_task' = FALSE
    /\ woken' = (woken \/ recv_task)
    /\ UNCHANGED <<pending, proxyAlive, rxInner, pollResult, store>>

sign_with(key) == send_request([tag |-> "SignWith", args |-> <<key>>])

has_keys(public_keys) == send_request([tag |-> "HasKeys", args |-> public_keys])

insert_unknown(public) == send_request([tag |-> "InsertUnknown", args |-> <<public>>])

\* A future that takes the Store's lock where it is built.
async_move_eager(method) ==
    [tag |-> method.tag, args |-> method.args,
     lease |-> IF method.tag = "InsertUnknown" THEN "write" ELSE "read"]

\* async move { keystore.read()/write(). ... .await }: the block is lazy, so
\* the future is built without touching the Store's lock.
async_move(method) ==
    [tag |-> method.tag, args |-> method.args, lease |-> "none"]

\* The HasKeys arm building the future of the arm below it.
process_request_wrong_arm(p, request) ==
    Append(p, [future |-> [async_move(request.method) EXCEPT
                              !.tag = IF @ = "HasKeys" THEN "InsertUnknown" ELSE @],
               sender |-> request.sender])

\* A dispatch that tracks the request twice: two entries hold its sender.
process_request_twice(p, request) ==
    Append(Append(p, [future |-> async_move(request.method),
                      sender |-> request.sender]),
           [future |-> async_move(request.method), sender |-> request.sender])

\* KeystoreReceiver::process_request: a PendingCall of the request's own
\* future and sender, pushed at the end of self.pending.
process_request(p, request) ==
    Append(p, [future |-> async_move(request.method), sender |-> request.sender])

\* A receiver that hands out the newest message.
poll_next_newest(q) ==
    [msg |-> q[Len(q)], rest |-> SubSeq(q, 1, Len(q) - 1)]

\* A receiver that hands out the oldest message and leaves it queued.
poll_next_peek(q) == [msg |-> Head(q), rest |-> q]

\* Receiver::poll_next on a queue that holds a message: the oldest one.
poll_next(q) == [msg |-> Head(q), rest |-> Tail(q)]

\* A drive that goes on pulling: a second request is taken when one is ready.
poll_drain ==
    /\ woken' = FALSE
    /\ pollResult' = "Pending"
    /\ IF queue # <<>>
         THEN /\ LET first == poll_next(queue)
                     p1 == process_request(pending, first.msg)
                 IN  IF first.rest # <<>>
                       THEN /\ queue' = poll_next(first.rest).rest
                            /\ pending' =
                                 process_request(p1, poll_next(first.rest).msg)
                       ELSE /\ queue' = first.rest
                            /\ pending' = p1
              /\ UNCHANGED <<recv_task, rxInner>>
         ELSE IF num_senders = 0
           THEN /\ rxInner' = FALSE
                /\ UNCHANGED <<queue, pending, recv_task>>
           ELSE /\ recv_task' = TRUE
                /\ UNCHANGED <<queue, pending, rxInner>>
    /\ UNCHANGED <<oneshot, proxyAlive, num_senders, store>>

\* A serial actor: it takes a new request only when nothing is in flight.
poll_serial ==
    /\ woken' = FALSE
    /\ pollResult' = "Pending"
    /\ IF pending # <<>>
         THEN UNCHANGED <<queue, pending, recv_task, rxInner>>
         ELSE IF queue # <<>>
           THEN /\ queue' = poll_next(queue).rest
                /\ pending' = process_request(pending, poll_next(queue).msg)
                /\ UNCHANGED <<recv_task, rxInner>>
           ELSE IF num_senders = 0
             THEN /\ rxInner' = FALSE
                  /\ UNCHANGED <<queue, pending, recv_task>>
             ELSE /\ recv_task' = TRUE
                  /\ UNCHANGED <<queue, pending, rxInner>>
    /\ UNCHANGED <<oneshot, proxyAlive, num_senders, store>>

\* An actor that completes at the end of the stream, in-flight work or not.
poll_ready_on_end ==
    /\ woken' = FALSE
    /\ IF queue # <<>>
         THEN /\ queue' = poll_next(queue).rest
              /\ pending' = process_request(pending, poll_next(queue).msg)
              /\ pollResult' = "Pending"
              /\ UNCHANGED <<recv_task, rxInner>>
         ELSE IF num_senders = 0
           THEN /\ rxInner' = FALSE
                /\ pollResult' = "Ready"
                /\ UNCHANGED <<queue, pending, recv_task>>
           ELSE /\ recv_task' = TRUE
                /\ pollResult' = "Pending"
                /\ UNCHANGED <<queue, pending, rxInner>>
    /\ UNCHANGED <<oneshot, proxyAlive, num_senders, store>>

\* KeystoreReceiver::poll.  The loop over self.pending is commented out, so
\* no PendingCall is polled, answered or removed.  poll_next is Ready(Some)
\* (one request processed, no waker registered), Ready(None) once no Sender
\* is left and the queue is empty, or Pending (waker registered).  Every
\* path returns Poll::Pending.
poll ==
    /\ woken' = FALSE
    /\ pollResult' = "Pending"
    /\ IF queue # <<>>
         THEN /\ queue' = poll_next(queue).rest
              /\ pending' = process_request(pending, poll_next(queue).msg)
              /\ UNCHANGED <<recv_task, rxInner>>
         ELSE IF num_senders = 0
           THEN /\ rxInner' = FALSE
                /\ UNCHANGED <<queue, pending, recv_task>>
           ELSE /\ recv_task' = TRUE
                /\ UNCHANGED <<queue, pending, rxInner>>
    /\ UNCHANGED <<oneshot, proxyAlive, num_senders, store>>

\* The caller drops the oneshot::Receiver send_request returned.
drop_handle(i) ==
    /\ oneshot[i].rx = "held"
    /\ oneshot' = [oneshot EXCEPT ![i].rx = "dropped"]
    /\ UNCHANGED <<queue, pending, proxyAlive, num_senders, recv_task, woken,
                   rxInner, pollResult, store>>

\* The KeystoreProxy is dropped: the last Sender goes, the channel closes
\* and the receiver's task is woken.
drop_proxy ==
    /\ proxyAlive
    /\ proxyAlive' = FALSE
    /\ num_senders' = num_senders - 1
    /\ recv_task' = FALSE
    /\ woken' = (woken \/ recv_task)
    /\ UNCHANGED <<queue, pending, oneshot, rxInner, pollResult, store>>

CallsLeft == Len(oneshot) < MaxCalls

Next ==
    \/ CallsLeft /\ \E k \in Keys : sign_with(k)
    \/ CallsLeft /\ \E ks \in KeyLists : has_keys(ks)
    \/ CallsLeft /\ \E k \in Keys : insert_unknown(k)
    \/ poll
    \/ \E i \in 1..Len(oneshot) : drop_handle(i)
    \/ drop_proxy

Spec == Init /\ [][Next]_vars

\* The scheduler keeps driving the actor: poll runs whenever it would do
\* anything.
DrivenSpec == Spec /\ WF_vars(poll)

\* The scheduler honours wake-ups: a woken task is polled.
WokenSpec == Spec /\ WF_vars(woken /\ poll)

\* A burst: BurstCalls has_keys calls, then MaxCalls calls of any kind, the
\* actor polled at any point.
BurstNext ==
    \/ Len(oneshot) < BurstCalls /\ has_keys(<<>>)
    \/ /\ Len(oneshot) >= BurstCalls
       /\ Len(oneshot) < BurstCalls + MaxCalls
       /\ \/ \E k \in Keys : sign_with(k)
          \/ \E ks \in KeyLists : has_keys(ks)
          \/ \E k \in Keys : insert_unknown(k)
    \/ poll

BurstSpec == Init /\ [][BurstNext]_vars

----------------------------------------------------------------------------
Issued(i) == i <= Len(oneshot)

\* C1: every request the actor has dispatched eventually has exactly one
\* Response attempted on its own response channel, while the scheduler keeps
\* driving the actor.
C1_DispatchedIsAnswered ==
    \A i \in 1..MaxCalls :
        [](Dispatched(i) => <>(Issued(i) /\ oneshot[i].sent = 1))

\* C2: no Proxy call leaves a handle that can never resolve because its
\* request was discarded: while the sender of a call's one-shot channel is
\* alive, the request that owns it is in the queue or in the in-flight set.
C2_NoOrphanedHandle ==
    LET owned == {queue[j].sender : j \in 1..Len(queue)}
                     \cup {pending[j].sender : j \in 1..Len(pending)}
    IN  \A i \in 1..Len(oneshot) : oneshot[i].tx = "alive" => i \in owned

\* C2 case: a sign_with or insert_unknown made while CHANNEL_SIZE requests
\* were unconsumed, its handle still held.
C2_CallAtCapacity ==
    /\ Len(queue) > CHANNEL_SIZE
    /\ queue[Len(queue)].method.tag \in {"SignWith", "InsertUnknown"}
    /\ oneshot[queue[Len(queue)].sender].rx = "held"

\* C3: the queue never holds more than CHANNEL_SIZE unconsumed requests.
C3_QueueBounded == Len(queue) <= CHANNEL_SIZE

\* C4: every request accepted into the queue is eventually pulled and
\* dispatched, while the scheduler honours wake-ups.
C4_AcceptedIsDispatched ==
    \A i \in 1..MaxCalls : InQueue(i) ~> Dispatched(i)

\* C5: once the Proxy is dropped the actor's future eventually completes.
C5_ActorStops == (~proxyAlive) ~> (pollResult = "Ready")

\* C6: requests are dispatched in the order they were enqueued: the in-flight
\* set lists them in enqueue order, and every dispatched request was enqueued
\* before every request still queued.
C6_DispatchInEnqueueOrder ==
    /\ \A j, k \in 1..Len(pending) :
           j < k => pending[j].sender < pending[k].sender
    /\ \A j \in 1..Len(pending) : \A k \in 1..Len(queue) :
           pending[j].sender < queue[k].sender

\* C6 case: two requests dispatched and a third still queued.
C6_TwoDispatchedOneQueued == Len(pending) >= 2 /\ Len(queue) >= 1

Leases(kind) == {j \in 1..Len(pending) : pending[j].future.lease = kind}

C8_AbandonedIsReleased ==
    \A i \in 1..MaxCalls :
        (Issued(i) /\ oneshot[i].rx = "dropped")
            ~> (~InQueue(i) /\ ~Dispatched(i))

\* C9: a Proxy call (the step that creates a one-shot channel) leaves the
\* Store, its leases and the in-flight set unchanged; it changes only the
\* queue, by nothing or by its own request at the end, and adds the channel.
C9_ProxyCallFrame ==
    [][Len(oneshot') > Len(oneshot) =>
          /\ store' = store
          /\ pending' = pending
          /\ \/ queue' = queue
             \/ /\ Len(queue') = Len(queue) + 1
                /\ SubSeq(queue', 1, Len(queue)) = queue
                /\ queue'[Len(queue')].sender = Len(oneshot')
          /\ SubSeq(oneshot', 1, Len(oneshot)) = oneshot
          /\ Len(oneshot') = Len(oneshot) + 1
          /\ UNCHANGED <<proxyAlive, rxInner, pollResult>>]_vars

\* C9 case: a Proxy call made after a request was dispatched.
C9_CallAfterDispatch ==
    /\ pending # <<>>
    /\ queue # <<>>
    /\ store # {}

\* C10: every in-flight entry pairs the response sender of one request with
\* a task built from that same request's operation tag and arguments.
C10_EntryMatchesRequest ==
    \A j \in 1..Len(pending) :
        /\ Issued(pending[j].sender)
        /\ pending[j].future.tag = oneshot[pending[j].sender].method.tag
        /\ pending[j].future.args = oneshot[pending[j].sender].method.args

\* C10 case: operations of all three kinds are in flight.
C10_AllKindsInFlight ==
    \A t \in {"SignWith", "HasKeys", "InsertUnknown"} :
        \E j \in 1..Len(pending) : pending[j].future.tag = t

\* C11: an InsertUnknown that was enqueued is eventually answered, and by
\* then its key is in the Store (so a HasKeys made after the answer sees it).
C11_InsertIsAppliedAndAnswered ==
    \A i \in 1..MaxCalls :
        (Issued(i) /\ oneshot[i].method.tag = "InsertUnknown")
            ~> (/\ Issued(i)
                /\ oneshot[i].sent = 1
                /\ oneshot[i].method.args[1] \in store)

\* C12: no lost wake-up: once a drive has returned Pending, a queue that
\* holds a request means a wake-up of the actor is pending.
C12_NoLostWakeup ==
    (pollResult = "Pending" /\ queue # <<>>) => woken

\* C13: every operation put in the in-flight set eventually leaves it, while
\* the scheduler keeps driving the actor.
C13_InFlightLeaves ==
    \A i \in 1..MaxCalls : Dispatched(i) ~> ~Dispatched(i)

\* A drive of the actor: the only step that leaves the one-shot channels and
\* the Proxy as they are.
Drive == oneshot' = oneshot /\ proxyAlive' = proxyAlive

\* C15: one drive of the actor removes at most one request from the queue,
\* and the in-flight set gains exactly as many entries as the queue lost.
C15_OnePerDrive ==
    [][Drive =>
          /\ Len(queue') <= Len(queue)
          /\ Len(queue') + 1 >= Len(queue)
          /\ Len(pending') + Len(queue') = Len(pending) + Len(queue)]_vars

\* C15 case: a drive has pulled one request and left two queued.
C15_PulledOneOfSeveral ==
    /\ pollResult = "Pending"
    /\ Len(pending) = 1
    /\ Len(queue) = 2

\* C16: in-flight work never blocks intake: in every state with operations
\* in flight and a request ready, a drive of the actor pulls that request and
\* tracks it, however many operations are in flight.
C16_IntakeNotBlocked ==
    (pending # <<>> /\ queue # <<>>) =>
        ENABLED (/\ poll
                 /\ queue' = Tail(queue)
                 /\ Len(pending') = Len(pending) + 1
                 /\ pending'[Len(pending')].sender = Head(queue).sender)

\* C16 case: more operations are in flight than the queue's capacity, and a
\* request is ready.
C16_InFlightAboveCapacity == Len(pending) > CHANNEL_SIZE /\ queue # <<>>

\* C17: the actor's future never completes while the Proxy is alive or
\* in-flight work remains: every drive so far returned Pending.
C17_NoEarlyCompletion ==
    (proxyAlive \/ pending # <<>>) => pollResult # "Ready"

\* C17 case: the Proxy is gone, a drive has seen the end of the stream, and
\* in-flight work remains.
C17_EndSeenWithInFlight ==
    /\ ~proxyAlive
    /\ ~rxInner
    /\ pending # <<>>
    /\ pollResult = "Pending"

\* The queued requests and in-flight entries that hold the sender of call i.
Holders(i) ==
    Cardinality({j \in 1..Len(queue) : queue[j].sender = i})
        + Cardinality({j \in 1..Len(pending) : pending[j].sender = i})

\* C18: each request is consumed exactly once: an accepted request is in
\* exactly one of the queue, the in-flight set or the finished state, and
\* every in-flight entry is a request that was issued and left the queue.
C18_ConsumedOnce ==
    /\ \A i \in 1..Len(oneshot) :
           /\ ~(InQueue(i) /\ Dispatched(i))
           /\ Holders(i) = IF oneshot[i].tx = "alive" THEN 1 ELSE 0
    /\ \A j \in 1..Len(pending) : Issued(pending[j].sender)

\* C18 case: one request in flight, a later one still queued.
C18_OneInFlightOneQueued ==
    /\ Len(pending) >= 1
    /\ Len(queue) >= 1
    /\ Len(queue) + Len(pending) = Len(oneshot)

\* C19: at most one Response is ever sent on a request's channel: the
\* Responses sent on it plus the holders that can still send on it are at
\* most one.
C19_AtMostOneResponse ==
    \A i \in 1..Len(oneshot) : oneshot[i].sent + Holders(i) <= 1

\* C19 case: a caller has dropped the handle of a request in flight while
\* another request is queued.
C19_DroppedHandleInFlight ==
    /\ \E i \in 1..Len(oneshot) : oneshot[i].rx = "dropped" /\ Dispatched(i)
    /\ queue # <<>>

\* C20: a Proxy call never closes the queue: while the Proxy exists a Sender
\* exists and the actor has not seen the end of the stream.
C20_CallsKeepQueueOpen ==
    proxyAlive => (num_senders >= 1 /\ rxInner)

\* C20 case: after several Proxy calls the actor has drained the queue and
\* a drive on the empty queue has registered its waker.
C20_EmptyQueuePolledAfterCalls ==
    /\ proxyAlive
    /\ Len(oneshot) >= 2
    /\ queue = <<>>
    /\ recv_task

====
